---- MODULE Spec2Model ----
(***************************************************************************)
(* A model of the CASC registry reconciliation pipeline                    *)
(* (cascs/fetch_cascs.py, cascs/utils.py).                                 *)
(*                                                                         *)
(* Identifiers ("GB-CASC-" + 8 hex digits of an MD5 digest) are abstracted *)
(* to the small set Ids; the digest is a fixed table over the modelled     *)
(* names and postcodes, with one collision.  Python's None is the value    *)
(* None below.  Strings that the code inspects character by character are  *)
(* sequences of one-character strings.                                     *)
(***************************************************************************)
EXTENDS Integers, Sequences, FiniteSets, TLC

VARIABLES
    pc,                 \* position of the run
    lookup_file,        \* rows of cascs_id_lookup.csv: [new_id, old_id]
    id_lookups,         \* the module-level alias dict
    infile,             \* rows of the existing cascs file, as read
    links,              \* data rows of the .ods attachments, in fetch order
    row_ids,            \* record["id"] of each row of the last run (None: no name)
    emitted,            \* records yielded by fetch_cascs in the last run
    cascs,              \* the sorted merged list of the last run
    first_cascs,        \* the merged list of the first run
    \* one alias walk, iteration by iteration
    org_id,             \* what get_org_id returned
    record_id,
    row_ids_seen,       \* in insertion order
    record,             \* the record being built: [id]
    existing_casc_ids,
    steps,              \* iterations of the while loop so far
    \* writing the output
    outfile,            \* args.outfile
    name_match,         \* args.name_match given
    to_fetch,           \* requests still to make: the page and its attachments
    out_i,              \* index in outfile of the file being written
    disk,               \* content of each output file
    \* one spreadsheet row
    name_cell,          \* its "Organisation Name" cell
    extracted,          \* what became of the row
    \* one comparison key
    display_name,
    keys

pipeVars == <<lookup_file, id_lookups, infile, links, row_ids, emitted,
              cascs, first_cascs>>

walkVars == <<org_id, record_id, row_ids_seen, record, existing_casc_ids, steps>>

writeVars == <<outfile, name_match, to_fetch, out_i, disk>>

rowVars == <<name_cell, extracted>>

keyVars == <<display_name, keys>>

vars == <<pc, pipeVars, walkVars, writeVars, rowVars, keyVars>>

----------------------------------------------------------------------------
\* Bounds of the model.

\* Rows of the alias file.
MaxPairs == 2

\* Data rows fetched in one run, over all attachments.
MaxRows == 2

----------------------------------------------------------------------------
\* Values.

None == "None"

Ids == {"X", "Y", "Z"}

Names == {"Alpha", "Beta"}

Postcodes == {None, "P1"}

Links == {"a.ods", "b.ods"}

Range(f) == {f[x] : x \in DOMAIN f}

EmptyDict == [x \in {} |-> None]

\* d[k] = v on a dict held as a function.
Put(d, k, v) == [x \in DOMAIN d \cup {k} |-> IF x = k THEN v ELSE d[x]]

SeqsUpTo(S, n) == UNION {[1..k -> S] : k \in 0..n}

----------------------------------------------------------------------------
\* The alias table: module-level code of fetch_cascs.py.

\* An insertion-ordered dict of ids: its keys in insertion order, its values.
EmptyODict == [keys |-> <<>>, val |-> EmptyDict]

OPut(d, k, v) ==
    [keys |-> IF k \in DOMAIN d.val THEN d.keys ELSE Append(d.keys, k),
     val  |-> Put(d.val, k, v)]

\* The dict comprehension: rows with new_id = old_id are left out, a later row
\* with the same new_id replaces the value.
RECURSIVE ForwardLookups(_, _, _)
ForwardLookups(file, i, d) ==
    IF i > Len(file) THEN d
    ELSE ForwardLookups(file, i + 1,
             IF file[i].new_id # file[i].old_id
             THEN OPut(d, file[i].new_id, file[i].old_id)
             ELSE d)

\* for k, v in list(id_lookups.items()): id_lookups[v] = k
\* The items are a snapshot (fw) taken before the loop.
RECURSIVE ReverseLookups(_, _, _)
ReverseLookups(fw, i, d) ==
    IF i > Len(fw.keys) THEN d
    ELSE ReverseLookups(fw, i + 1, OPut(d, fw.val[fw.keys[i]], fw.keys[i]))

LoadIdLookups(file) ==
    LET fw == ForwardLookups(file, 1, EmptyODict)
    IN ReverseLookups(fw, 1, fw).val

LookupRows == [new_id : Ids, old_id : Ids]

\* A new_id is given one old_id: the file lists, for an id, the id it replaced.
OneOldPerNew(file) ==
    \A i, j \in DOMAIN file :
        file[i].new_id = file[j].new_id => file[i].old_id = file[j].old_id

LookupFiles == {f \in SeqsUpTo(LookupRows, MaxPairs) : OneOldPerNew(f)}

\* The alias dicts a lookup file of the modelled size can produce.
Tables == {LoadIdLookups(f) : f \in LookupFiles}

\* A lookup file that loads to table t.
FileOf(t) == CHOOSE f \in LookupFiles : LoadIdLookups(f) = t

----------------------------------------------------------------------------
\* get_org_id.

\* hash_id: the first 8 hex digits of the MD5 of str(name) + str(postcode).
\* Two different inputs may share a digest prefix; the table has one such pair.
hash_id(name, postcode) ==
    CASE name = "Alpha" /\ postcode = None -> "X"
      [] name = "Alpha" /\ postcode = "P1" -> "Y"
      [] name = "Beta"  /\ postcode = None -> "Z"
      [] OTHER -> "X"

get_org_id(rec) == hash_id(rec.name, rec.postcode)

----------------------------------------------------------------------------
\* The alias walk of fetch_cascs.

\* The walk without its guard against a revisit.
NeverRevisited(rid, seen_ids) == FALSE

\* record_id in row_ids_seen
Revisited(rid, seen_ids) == rid \in Range(seen_ids)

\* One iteration of the while loop.  row_ids_seen is kept in insertion order;
\* the code holds it as a set.
WalkIter(tbl, w) ==
    IF w.record_id \in DOMAIN tbl
    THEN LET nxt == tbl[w.record_id]
         IN IF Revisited(nxt, w.row_ids_seen)
            THEN [w EXCEPT !.record_id = nxt, !.done = TRUE]
            ELSE [w EXCEPT !.record_id = nxt,
                           !.row_ids_seen = Append(w.row_ids_seen, nxt)]
    ELSE [w EXCEPT !.done = TRUE]

WalkStart(id) == [record_id |-> id, row_ids_seen |-> <<>>, done |-> FALSE]

RECURSIVE WalkLoop(_, _)
WalkLoop(tbl, w) == IF w.done THEN w ELSE WalkLoop(tbl, WalkIter(tbl, w))

\* The ids visited by the walk from id, in walk order.
WalkFrom(tbl, id) == WalkLoop(tbl, WalkStart(id)).row_ids_seen

\* The orders in which a set of ids may be iterated: Python iterates a set of
\* strings by hash, and string hashes change from one process to the next.
SetOrders == {o \in [1..Cardinality(Ids) -> Ids] : Range(o) = Ids}

FirstIn(order, S) == order[CHOOSE i \in DOMAIN order :
                              /\ order[i] \in S
                              /\ \A j \in 1..(i - 1) : order[j] \notin S]

\* for id in row_ids_seen: if id in existing_casc_ids: record["id"] = id; break
AdoptExisting(derived, seen_ids, existing, order) ==
    LET hits == Range(seen_ids) \cap existing
    IN IF hits = {} THEN derived ELSE FirstIn(order, hits)

\* The final id of a record whose derived id is derived.
FinalId(derived, tbl, existing, order) ==
    AdoptExisting(derived, WalkFrom(tbl, derived), existing, order)

----------------------------------------------------------------------------
\* fetch_cascs.

\* A data row after the header zip: name is what to_titlecase returned (None
\* for a row without a name cell).
DataRows ==
    [link : Links, name : Names, postcode : Postcodes, address : {"New Rd"}]
    \cup [link : Links, name : {None}, postcode : {None}, address : {"New Rd"}]

\* The rows of one attachment follow each other.
Contiguous(rows) ==
    \A i, j, k \in DOMAIN rows :
        (i < j /\ j < k /\ rows[i].link = rows[k].link)
            => rows[j].link = rows[i].link

Fetches == {rows \in SeqsUpTo(DataRows, MaxRows) : Contiguous(rows)}

\* ids_seen emptied at the first row of each attachment.
IdsSeenPerLink(ids_seen, rows, i) ==
    IF i > 1 /\ rows[i].link # rows[i - 1].link THEN {} ELSE ids_seen

\* ids_seen is set once, before the loop over the links.
IdsSeenAtRow(ids_seen, rows, i) == ids_seen

BuildRecord(row, tbl, existing, order) ==
    LET rec == [name |-> row.name, address |-> row.address,
                   postcode |-> row.postcode]
    IN [id |-> FinalId(get_org_id(rec), tbl, existing, order),
        name |-> rec.name, address |-> rec.address,
        postcode |-> rec.postcode]

RECURSIVE FetchRows(_, _, _, _, _, _, _)
FetchRows(rows, i, tbl, existing, order, ids_seen, out) ==
    IF i > Len(rows) THEN out
    ELSE LET seen == IdsSeenAtRow(ids_seen, rows, i)
         IN IF rows[i].name = None
            THEN FetchRows(rows, i + 1, tbl, existing, order, seen, out)
            ELSE LET rec == BuildRecord(rows[i], tbl, existing, order)
                 IN IF rec.id \in seen
                    THEN FetchRows(rows, i + 1, tbl, existing, order,
                                   seen, out)
                    ELSE FetchRows(rows, i + 1, tbl, existing, order,
                                   seen \cup {rec.id}, Append(out, rec))

fetch_cascs(rows, tbl, existing, order) ==
    FetchRows(rows, 1, tbl, existing, order, {}, <<>>)

----------------------------------------------------------------------------
\* main: load, merge, sort.

\* dict[r.id] = r on an insertion-ordered dict of records, held as a sequence.
RECURSIVE DictPutRec(_, _)
DictPutRec(d, r) ==
    IF d = <<>> THEN <<r>>
    ELSE IF Head(d).id = r.id THEN <<r>> \o Tail(d)
    ELSE <<Head(d)>> \o DictPutRec(Tail(d), r)

RECURSIVE DictUpdate(_, _)
DictUpdate(d, rs) ==
    IF rs = <<>> THEN d ELSE DictUpdate(DictPutRec(d, Head(rs)), Tail(rs))

WithActive(r, a) ==
    [id |-> r.id, name |-> r.name, address |-> r.address,
     postcode |-> r.postcode, active |-> a]

\* existing_cascs = {r["id"]: {**r, "active": False} for r in reader}
LoadExisting(file) ==
    DictUpdate(<<>>, [i \in DOMAIN file |-> WithActive(file[i], FALSE)])

\* The merge with the existing records written over the fetched ones.
MergeExistingWins(existing_cascs, fetched) ==
    DictUpdate([i \in DOMAIN fetched |-> WithActive(fetched[i], TRUE)],
               existing_cascs)

\* {**existing_cascs, **{c["id"]: {**c, "active": True} for c in fetch_cascs()}}
MergeCascs(existing_cascs, fetched) ==
    DictUpdate(existing_cascs,
               [i \in DOMAIN fetched |-> WithActive(fetched[i], TRUE)])

\* Python's order on the modelled names.
NameRank(name) == IF name = "Alpha" THEN 1 ELSE 2

RECURSIVE InsertByName(_, _)
InsertByName(sorted, r) ==
    IF sorted = <<>> THEN <<r>>
    ELSE IF NameRank(r.name) < NameRank(Head(sorted).name)
         THEN <<r>> \o sorted
         ELSE <<Head(sorted)>> \o InsertByName(Tail(sorted), r)

\* sorted(list(cascs.values()), key=lambda x: x.get("name", x.get("id"))):
\* a stable sort.
RECURSIVE SortByName(_)
SortByName(rs) ==
    IF rs = <<>> THEN <<>>
    ELSE InsertByName(SortByName(SubSeq(rs, 1, Len(rs) - 1)), rs[Len(rs)])

IdsOf(rs) == {rs[i].id : i \in DOMAIN rs}

\* The existing file rows of the first run: an earlier output, one row per id,
\* sorted by name.
PersistedRow(id) ==
    [id |-> id,
     name |-> IF id = "Z" THEN "Beta" ELSE "Alpha",
     address |-> "Old Rd",
     postcode |-> IF id = "Y" THEN "P1" ELSE "",
     active |-> "True"]

RECURSIVE RowsOf(_)
RowsOf(S) ==
    IF S = {} THEN <<>>
    ELSE LET id == CHOOSE x \in S : TRUE
         IN Append(RowsOf(S \ {id}), PersistedRow(id))

Infiles == {SortByName(RowsOf(S)) : S \in SUBSET Ids}

\* The output written in format fmt and read back as the next run's infile.
\* csv writes None as the empty string and a bool as its str(); json keeps
\* null and true/false.
WriteRead(r, fmt) ==
    IF fmt = "csv"
    THEN [id |-> r.id, name |-> r.name, address |-> r.address,
          postcode |-> IF r.postcode = None THEN "" ELSE r.postcode,
          active |-> IF r.active THEN "True" ELSE "False"]
    ELSE [id |-> r.id, name |-> r.name, address |-> r.address,
          postcode |-> r.postcode,
          active |-> IF r.active THEN "true" ELSE "false"]

Formats == {"csv", "json"}

\* main up to the sorted merged list.
Merged(file, rows, tbl, order) ==
    LET existing_cascs == LoadExisting(file)
    IN SortByName(MergeCascs(existing_cascs,
                             fetch_cascs(rows, tbl, IdsOf(existing_cascs), order)))

----------------------------------------------------------------------------
\* Parts of the state a specification does not use keep these values.

PipeIdle ==
    /\ lookup_file = <<>>
    /\ id_lookups = EmptyDict
    /\ infile = <<>>
    /\ links = <<>>
    /\ row_ids = <<>>
    /\ emitted = <<>>
    /\ cascs = <<>>
    /\ first_cascs = <<>>

WalkIdle ==
    /\ org_id = None
    /\ record_id = None
    /\ row_ids_seen = <<>>
    /\ record = [id |-> None]
    /\ existing_casc_ids = {}
    /\ steps = 0

WriteIdle ==
    /\ outfile = <<>>
    /\ name_match = FALSE
    /\ to_fetch = 0
    /\ out_i = 0
    /\ disk = EmptyDict

RowIdle ==
    /\ name_cell = <<>>
    /\ extracted = [status |-> "idle", name |-> <<>>]

KeyIdle ==
    /\ display_name = <<>>
    /\ keys = [amp |-> <<>>, word |-> <<>>]

----------------------------------------------------------------------------
\* The pipeline: main, run on an existing file and one fetch.

Init ==
    /\ pc = "loaded"
    /\ id_lookups \in Tables
    /\ lookup_file = FileOf(id_lookups)
    /\ infile \in Infiles
    /\ links \in Fetches
    /\ row_ids = <<>>
    /\ emitted = <<>>
    /\ cascs = <<>>
    /\ first_cascs = <<>>
    /\ WalkIdle /\ WriteIdle /\ RowIdle /\ KeyIdle

\* record["id"] of every row, as fetch_cascs leaves it.
RowIds(rows, tbl, existing, order) ==
    [i \in DOMAIN rows |->
        IF rows[i].name = None THEN None
        ELSE BuildRecord(rows[i], tbl, existing, order).id]

\* One run of main on the existing file and the fetched rows.
Run ==
    /\ pc = "loaded"
    /\ \E order \in SetOrders :
         LET ids == IdsOf(LoadExisting(infile))
         IN /\ row_ids' = RowIds(links, id_lookups, ids, order)
            /\ emitted' = fetch_cascs(links, id_lookups, ids, order)
            /\ cascs' = Merged(infile, links, id_lookups, order)
    /\ first_cascs' = cascs'
    /\ pc' = "merged"
    /\ UNCHANGED <<lookup_file, id_lookups, infile, links>>
    /\ UNCHANGED <<walkVars, writeVars, rowVars, keyVars>>

\* A second run, in a new process, on the first run's output and the same fetch.
Rerun ==
    /\ pc = "merged"
    /\ \E order \in SetOrders, fmt \in Formats :
         LET ids == IdsOf(cascs)
         IN /\ infile' = [i \in DOMAIN cascs |-> WriteRead(cascs[i], fmt)]
            /\ row_ids' = RowIds(links, id_lookups, ids, order)
            /\ emitted' = fetch_cascs(links, id_lookups, ids, order)
            /\ cascs' = Merged(infile', links, id_lookups, order)
    /\ pc' = "remerged"
    /\ UNCHANGED <<lookup_file, id_lookups, links, first_cascs>>
    /\ UNCHANGED <<walkVars, writeVars, rowVars, keyVars>>

Next == Run \/ Rerun

Spec == Init /\ [][Next]_vars

----------------------------------------------------------------------------
\* The import of fetch_cascs.py, then one run.

InitLookup ==
    /\ pc = "import"
    /\ lookup_file \in LookupFiles
    /\ id_lookups = EmptyDict
    /\ infile \in Infiles
    /\ links \in Fetches
    /\ row_ids = <<>>
    /\ emitted = <<>>
    /\ cascs = <<>>
    /\ first_cascs = <<>>
    /\ WalkIdle /\ WriteIdle /\ RowIdle /\ KeyIdle

LoadLookups ==
    /\ pc = "import"
    /\ id_lookups' = LoadIdLookups(lookup_file)
    /\ pc' = "loaded"
    /\ UNCHANGED <<lookup_file, infile, links, row_ids, emitted, cascs,
                   first_cascs>>
    /\ UNCHANGED <<walkVars, writeVars, rowVars, keyVars>>

NextLookup == LoadLookups \/ Run

SpecLookup == InitLookup /\ [][NextLookup]_vars

----------------------------------------------------------------------------
\* One alias walk, an iteration at a time.

InitWalk ==
    /\ pc = "walk"
    /\ id_lookups \in Tables
    /\ lookup_file = FileOf(id_lookups)
    /\ infile = <<>> /\ links = <<>> /\ row_ids = <<>> /\ emitted = <<>>
    /\ cascs = <<>> /\ first_cascs = <<>>
    /\ existing_casc_ids \in SUBSET Ids
    /\ org_id \in Ids
    /\ record = [id |-> org_id]
    /\ record_id = org_id
    /\ row_ids_seen = <<>>
    /\ steps = 0
    /\ WriteIdle /\ RowIdle /\ KeyIdle

\* One pass through the body of "while True".
WalkOnce ==
    /\ pc = "walk"
    /\ LET w == WalkIter(id_lookups, [record_id |-> record_id,
                                      row_ids_seen |-> row_ids_seen,
                                      done |-> FALSE])
       IN /\ record_id' = w.record_id
          /\ row_ids_seen' = w.row_ids_seen
          /\ pc' = IF w.done THEN "adopt" ELSE "walk"
    /\ steps' = steps + 1
    /\ UNCHANGED <<org_id, record, existing_casc_ids>>
    /\ UNCHANGED <<pipeVars, writeVars, rowVars, keyVars>>

\* The "for id in row_ids_seen" loop, then the yield.
Adopt ==
    /\ pc = "adopt"
    /\ \E order \in SetOrders :
         record' = [id |-> AdoptExisting(record.id, row_ids_seen,
                                         existing_casc_ids, order)]
    /\ pc' = "yielded"
    /\ UNCHANGED <<org_id, record_id, row_ids_seen, existing_casc_ids, steps>>
    /\ UNCHANGED <<pipeVars, writeVars, rowVars, keyVars>>

NextWalk == WalkOnce \/ Adopt

\* The loop runs in one thread: an iteration that can run does run.
SpecWalk == InitWalk /\ [][NextWalk]_vars /\ WF_vars(NextWalk)

----------------------------------------------------------------------------
\* Properties of the alias table and of one run.

HasId(rs, id) == \E i \in DOMAIN rs : rs[i].id = id

SameFields(a, b) ==
    a.name = b.name /\ a.address = b.address /\ a.postcode = b.postcode

\* The rows of the fetch that got a record: those with a name.
Named(i) == links[i].name # None

\* C7: after the import, every pair (new_id, old_id) of the lookup file with
\* new_id # old_id is in the table in both directions, table[new_id] = old_id
\* and table[old_id] = new_id, and so every entry k -> v of the table has its
\* reverse v -> k in the table, also when an id occurs in several pairs.
C7_BidirectionalTable ==
    pc # "import" =>
        /\ \A i \in DOMAIN lookup_file :
              LET r == lookup_file[i]
              IN r.new_id # r.old_id =>
                    /\ r.new_id \in DOMAIN id_lookups
                    /\ r.old_id \in DOMAIN id_lookups
                    /\ id_lookups[r.new_id] = r.old_id
                    /\ id_lookups[r.old_id] = r.new_id
        /\ \A k \in DOMAIN id_lookups :
              /\ id_lookups[k] \in DOMAIN id_lookups
              /\ id_lookups[id_lookups[k]] = k

\* C1: identity continuity.  When the existing file holds a record with id X,
\* the fetch holds a row whose derived id is Y (Y # X, Y not in the existing
\* file) and the lookup file holds the pair (new_id = Y, old_id = X), possibly
\* among other pairs, the merged list holds exactly one record under X, active,
\* and none under Y.
C1_IdentityContinuity ==
    pc = "merged" =>
        \A X \in Ids, Y \in Ids :
            ( /\ X # Y
              /\ HasId(infile, X)
              /\ ~HasId(infile, Y)
              /\ \E i \in DOMAIN lookup_file :
                    lookup_file[i] = [new_id |-> Y, old_id |-> X]
              /\ \E j \in DOMAIN links : Named(j) /\ get_org_id(links[j]) = Y )
            => /\ Cardinality({k \in DOMAIN cascs : cascs[k].id = X}) = 1
               /\ \A k \in DOMAIN cascs : cascs[k].id = X => cascs[k].active
               /\ ~HasId(cascs, Y)

\* C2: idempotence.  Merging the first run's output with the same fetch and
\* the same alias table gives the first run's merged set again: the same ids,
\* the same fields, the same active flags.
C2_Idempotent ==
    pc = "remerged" => Range(cascs) = Range(first_cascs)

\* The first id of a sequence of ids that is in S (None when there is none).
FirstVisitedIn(walk, S) ==
    IF \E k \in DOMAIN walk : walk[k] \in S
    THEN walk[CHOOSE k \in DOMAIN walk :
                  /\ walk[k] \in S
                  /\ \A m \in 1..(k - 1) : walk[m] \notin S]
    ELSE None

\* C6: walk-order preference.  When the alias walk from a row's derived id
\* visits ids of the existing file, the row's final id is the one the walk
\* visited first.
C6_WalkOrderPreference ==
    pc \in {"merged", "remerged"} =>
        \A i \in DOMAIN links :
            Named(i) =>
                LET first == FirstVisitedIn(
                                 WalkFrom(id_lookups, get_org_id(links[i])),
                                 IdsOf(infile))
                IN first # None => row_ids[i] = first

\* C4: merge precedence and persistence.  The merged list has exactly one
\* record for each id of the existing file and of the emitted records; a record
\* is active exactly when its id was emitted, and then has the emitted fields;
\* every other record has the existing file's fields and is inactive.
C4_MergePrecedence ==
    pc \in {"merged", "remerged"} =>
        /\ IdsOf(cascs) = IdsOf(infile) \cup IdsOf(emitted)
        /\ Len(cascs) = Cardinality(IdsOf(infile) \cup IdsOf(emitted))
        /\ \A k \in DOMAIN cascs :
              IF HasId(emitted, cascs[k].id)
              THEN /\ cascs[k].active = TRUE
                   /\ \E j \in DOMAIN emitted :
                         /\ emitted[j].id = cascs[k].id
                         /\ SameFields(emitted[j], cascs[k])
              ELSE /\ cascs[k].active = FALSE
                   /\ \E i \in DOMAIN infile :
                         /\ infile[i].id = cascs[k].id
                         /\ SameFields(infile[i], cascs[k])

\* A merge in which one existing id was emitted again and another was not.
C4_Witness ==
    /\ pc = "merged"
    /\ \E a \in IdsOf(infile) : HasId(emitted, a)
    /\ \E b \in IdsOf(infile) : ~HasId(emitted, b)
    /\ \E c \in IdsOf(emitted) : ~HasId(infile, c)

\* C5: within-batch dedup.  Over one fetch, across its attachments, the
\* emitted records have pairwise distinct ids, and the record emitted for an id
\* is built from the first row, in fetch order, whose final id it is.
C5_WithinBatchDedup ==
    pc \in {"merged", "remerged"} =>
        /\ \A i, j \in DOMAIN emitted :
              i # j => emitted[i].id # emitted[j].id
        /\ \A i \in DOMAIN links :
              Named(i) => HasId(emitted, row_ids[i])
        /\ \A j \in DOMAIN emitted :
              \E i \in DOMAIN links :
                  /\ Named(i)
                  /\ row_ids[i] = emitted[j].id
                  /\ \A m \in 1..(i - 1) : row_ids[m] # emitted[j].id
                  /\ SameFields(links[i], emitted[j])

\* Two rows of different attachments, with different fields, got the same
\* final id.
C5_Witness ==
    /\ pc = "merged"
    /\ \E i, j \in DOMAIN links :
          /\ i < j
          /\ Named(i) /\ Named(j)
          /\ row_ids[i] = row_ids[j]
          /\ links[i].link # links[j].link
          /\ ~SameFields(links[i], links[j])

----------------------------------------------------------------------------
\* Properties of the alias walk.

\* A and B map to each other.
TwoCycle(A, B) ==
    /\ A # B
    /\ A \in DOMAIN id_lookups /\ B \in DOMAIN id_lookups
    /\ id_lookups[A] = B /\ id_lookups[B] = A

\* C3: alias termination.  For every alias table, cyclic or not, and every
\* starting id, the walk ends, after at most one iteration more than the table
\* has entries; and on a two-element cycle A <-> B the record that started at
\* A or B ends with an id in {A, B}.
C3_AliasTermination ==
    /\ <>(pc = "yielded")
    /\ [](steps <= Cardinality(DOMAIN id_lookups) + 1)
    /\ [](pc = "yielded" =>
            \A A \in Ids, B \in Ids :
                (TwoCycle(A, B) /\ org_id \in {A, B}) => record.id \in {A, B})

\* A walk around a two-element cycle that ended on a revisit, with both ids in
\* the existing file.
C3_Witness ==
    /\ pc = "yielded"
    /\ TwoCycle(org_id, record_id)
    /\ Len(row_ids_seen) = 2
    /\ steps = 3
    /\ {org_id, record_id} \subseteq existing_casc_ids

----------------------------------------------------------------------------
\* Strings, as sequences of one-character strings.

Uppers ==
    <<"A", "B", "C", "D", "E", "F", "G", "H", "I", "J", "K", "L", "M", "N",
     "O", "P", "Q", "R", "S", "T", "U", "V", "W", "X", "Y", "Z">>

Lowers ==
    <<"a", "b", "c", "d", "e", "f", "g", "h", "i", "j", "k", "l", "m", "n",
     "o", "p", "q", "r", "s", "t", "u", "v", "w", "x", "y", "z">>

Digits == {"0", "1", "2", "3", "4", "5", "6", "7", "8", "9"}

IsUpperChar(c) == \E i \in DOMAIN Uppers : Uppers[i] = c

IsLowerChar(c) == \E i \in DOMAIN Lowers : Lowers[i] = c

LowerChar(c) ==
    IF IsUpperChar(c) THEN Lowers[CHOOSE i \in DOMAIN Uppers : Uppers[i] = c]
    ELSE c

UpperChar(c) ==
    IF IsLowerChar(c) THEN Uppers[CHOOSE i \in DOMAIN Lowers : Lowers[i] = c]
    ELSE c

\* str.lower, str.upper
LowerStr(s) == [i \in DOMAIN s |-> LowerChar(s[i])]

UpperStr(s) == [i \in DOMAIN s |-> UpperChar(s[i])]

\* str.isupper, str.islower: some cased character, and none of the other case.
IsUpperStr(s) ==
    /\ \E i \in DOMAIN s : IsUpperChar(s[i])
    /\ \A i \in DOMAIN s : ~IsLowerChar(s[i])

IsLowerStr(s) ==
    /\ \E i \in DOMAIN s : IsLowerChar(s[i])
    /\ \A i \in DOMAIN s : ~IsUpperChar(s[i])

\* str.strip(): the modelled strings hold no whitespace but the space.
RECURSIVE LStrip(_)
LStrip(s) == IF s # <<>> /\ Head(s) = " " THEN LStrip(Tail(s)) ELSE s

RECURSIVE RStrip(_)
RStrip(s) ==
    IF s # <<>> /\ s[Len(s)] = " " THEN RStrip(SubSeq(s, 1, Len(s) - 1)) ELSE s

Strip(s) == RStrip(LStrip(s))

\* The words of s between single spaces (re.split on a space).
RECURSIVE SplitSpace(_, _)
SplitSpace(s, word) ==
    IF s = <<>> THEN <<word>>
    ELSE IF Head(s) = " " THEN <<word>> \o SplitSpace(Tail(s), <<>>)
    ELSE SplitSpace(Tail(s), Append(word, Head(s)))

RECURSIVE JoinSpace(_)
JoinSpace(words) ==
    IF words = <<>> THEN <<>>
    ELSE IF Len(words) = 1 THEN words[1]
    ELSE words[1] \o <<" ">> \o JoinSpace(Tail(words))

\* None where a string is expected.
NoneStr == <<"None">>

----------------------------------------------------------------------------
\* utils.py: to_titlecase and its callback.

Vowels == {"A", "E", "I", "O", "U", "Y", "a", "e", "i", "o", "u", "y"}

ExceptionWords ==
    {<<"G", "A", "A">>, <<"L", "t", "d">>, <<"C", "I", "C">>, <<"F", "C">>,
     <<"R", "F", "C">>}

LowercaseWords ==
    {<<"a">>, <<"a", "n">>, <<"o", "f">>, <<"t", "h", "e">>, <<"i", "s">>,
     <<"o", "r">>}

UppercaseWords ==
    {<<"U", "K">>, <<"F", "M">>, <<"Y", "M", "C", "A">>, <<"P", "T", "A">>,
     <<"P", "T", "F", "A">>, <<"N", "H", "S">>, <<"C", "I", "O">>,
     <<"U", "3", "A">>, <<"R", "A", "F">>, <<"P", "F", "A">>,
     <<"A", "D", "H", "D">>, <<"I">>, <<"I", "I">>, <<"I", "I", "I">>,
     <<"I", "V">>, <<"V">>, <<"V", "I">>, <<"V", "I", "I">>,
     <<"V", "I", "I", "I">>, <<"I", "X">>, <<"X">>, <<"X", "I">>,
     <<"A", "F", "C">>, <<"C", "E">>, <<"C", "I", "C">>}

NoVowelWords ==
    {<<"s", "t">>, <<"m", "r">>, <<"m", "r", "s">>, <<"m", "s">>,
     <<"l", "t", "d">>, <<"d", "r">>, <<"c", "w", "m">>,
     <<"c", "l", "w", "b">>, <<"d", "r", "s">>}

OrdinalSuffixes == {<<"s", "t">>, <<"n", "d">>, <<"r", "d">>, <<"t", "h">>}

\* ORD_NUMBERS_RE.search: digits followed by st, nd, rd or th.
HasOrdinal(s) ==
    \E i \in DOMAIN s :
        /\ s[i] \in Digits
        /\ i + 2 <= Len(s)
        /\ SubSeq(s, i + 1, i + 2) \in OrdinalSuffixes

\* word.strip("(){}<>.")
RECURSIVE StripPunct(_)
StripPunct(w) ==
    LET punct == {"(", ")", "{", "}", "<", ">", "."}
    IN IF w # <<>> /\ Head(w) \in punct THEN StripPunct(Tail(w))
       ELSE IF w # <<>> /\ w[Len(w)] \in punct
            THEN StripPunct(SubSeq(w, 1, Len(w) - 1))
            ELSE w

\* str.title() of a word without punctuation inside.
TitleStr(w) ==
    [i \in DOMAIN w |-> IF i = 1 THEN UpperChar(w[i]) ELSE LowerChar(w[i])]

\* title_exceptions(word): the word to use, or NoneStr.  The modelled cells
\* hold none of ".", "'" and ")", so the branch that splits a word on them is
\* never taken and is left out.
title_exceptions(word) ==
    LET word_test == StripPunct(word)
    IN IF \E e \in ExceptionWords : UpperStr(word) = UpperStr(e)
       THEN CHOOSE e \in ExceptionWords : UpperStr(word) = UpperStr(e)
       ELSE IF LowerStr(word_test) \in LowercaseWords THEN LowerStr(word)
       ELSE IF UpperStr(word_test) \in UppercaseWords THEN UpperStr(word)
       ELSE IF LowerStr(word_test) \in NoVowelWords THEN TitleStr(word_test)
       ELSE IF HasOrdinal(LowerStr(word_test)) THEN LowerStr(word)
       ELSE IF ~\E i \in DOMAIN word_test : word_test[i] \in Vowels
            THEN UpperStr(word)
            ELSE NoneStr

\* titlecase.titlecase(s, callback=title_exceptions) of the titlecase library,
\* on a line that is all upper or all lower case: a word the callback answers
\* for (with a non-empty string) is taken as answered, any other word is
\* lowered and its first letter capitalised.
TitlecaseWord(word) ==
    LET answer == title_exceptions(word)
    IN IF answer # NoneStr /\ answer # <<>> THEN answer
       ELSE TitleStr(word)

titlecase(s) ==
    LET words == SplitSpace(s, <<>>)
    IN JoinSpace([i \in DOMAIN words |-> TitlecaseWord(words[i])])

to_titlecase(s) ==
    IF s = NoneStr THEN NoneStr
    ELSE LET t == Strip(s)
         IN IF ~IsUpperStr(t) /\ ~IsLowerStr(t) THEN t
            ELSE LET u == titlecase(t)
                 IN <<UpperChar(u[1])>> \o Tail(u)

----------------------------------------------------------------------------
\* fetch_cascs: one data row, from its cells to the record's name.

\* Longest "Organisation Name" cell.
MaxCell == 3

CellChars == {" ", "a", "A", "b", "B"}

\* The cell: NoneStr when the row has no such cell, else its text.
NameCells == {NoneStr} \cup SeqsUpTo(CellChars, MaxCell)

\* record = {k: v.strip() for k, v in zip(headers, row) if k and v}, then
\* record.get("Organisation Name"): an empty cell leaves no key.
CellValue(cell) ==
    IF cell = NoneStr \/ cell = <<>> THEN NoneStr ELSE Strip(cell)

\* record["name"]
RecordName(cell) == to_titlecase(CellValue(cell))

InitRow ==
    /\ pc = "row"
    /\ name_cell \in NameCells
    /\ extracted = [status |-> "idle", name |-> NoneStr]
    /\ PipeIdle /\ WalkIdle /\ WriteIdle /\ KeyIdle

\* The body of the loop over the rows, up to "if record["name"] is None".
ExtractRow ==
    /\ pc = "row"
    /\ LET name == RecordName(name_cell)
       IN extracted' = IF name = NoneStr
                       THEN [status |-> "dropped", name |-> NoneStr]
                       ELSE [status |-> "kept", name |-> name]
    /\ pc' = "row_done"
    /\ UNCHANGED name_cell
    /\ UNCHANGED <<pipeVars, walkVars, writeVars, keyVars>>

NextRow == ExtractRow

SpecRow == InitRow /\ [][NextRow]_vars

\* No name in the cell: no cell, or nothing but spaces.
Blank(cell) == cell = NoneStr \/ \A i \in DOMAIN cell : cell[i] = " "

\* C9: name never empty.  A row that is kept has a non-empty name, and a row
\* whose name cell is missing, empty or only whitespace is dropped.
C9_NameNeverEmpty ==
    pc = "row_done" =>
        /\ extracted.status = "kept" => extracted.name # <<>>
        /\ Blank(name_cell) => extracted.status = "dropped"

----------------------------------------------------------------------------
\* normalizeString.

\* re.sub(r"[.,(){}\[\]-]", " ", s)
PunctToSpace(s) ==
    [i \in DOMAIN s |->
        IF s[i] \in {".", ",", "(", ")", "{", "}", "[", "]", "-"} THEN " "
        ELSE s[i]]

\* re.sub(r"[^0-9a-z ]", "", s)
KeepAlnumSpace(s) ==
    SelectSeq(s, LAMBDA c : c \in Digits \/ IsLowerChar(c) \/ c = " ")

\* \w
WordChar(c) == c \in Digits \/ IsLowerChar(c) \/ IsUpperChar(c) \/ c = "_"

\* \b before position i of s, for a word character at i.
BoundaryBefore(s, i) == i = 1 \/ ~WordChar(s[i - 1])

\* re.sub(r"^the\b", "", s)
DropLeadingThe(s) ==
    IF /\ Len(s) >= 3
       /\ SubSeq(s, 1, 3) = <<"t", "h", "e">>
       /\ (Len(s) = 3 \/ ~WordChar(s[4]))
    THEN SubSeq(s, 4, Len(s))
    ELSE s

EndsWith(s, t) ==
    Len(s) >= Len(t) /\ SubSeq(s, Len(s) - Len(t) + 1, Len(s)) = t

\* re.sub(r"\b(ltd|limited)$", "", s)
DropTrailingLtd(s) ==
    LET ltd == <<"l", "t", "d">>
        limited == <<"l", "i", "m", "i", "t", "e", "d">>
    IN IF EndsWith(s, ltd) /\ BoundaryBefore(s, Len(s) - 2)
       THEN SubSeq(s, 1, Len(s) - 3)
       ELSE IF EndsWith(s, limited) /\ BoundaryBefore(s, Len(s) - 6)
            THEN SubSeq(s, 1, Len(s) - 7)
            ELSE s

\* re.sub(r"\b&\b", " and ", s): an "&" with a word character on each side.
RECURSIVE ExpandAmp(_, _)
ExpandAmp(s, i) ==
    IF i > Len(s) THEN <<>>
    ELSE IF /\ s[i] = "&"
            /\ i > 1 /\ WordChar(s[i - 1])
            /\ i < Len(s) /\ WordChar(s[i + 1])
         THEN <<" ", "a", "n", "d", " ">> \o ExpandAmp(s, i + 1)
         ELSE <<s[i]>> \o ExpandAmp(s, i + 1)

\* The strings c[ \.]?i[ \.]?c[ \.]? matches.
CicForms ==
    LET sep == {<<>>, <<" ">>, <<".">>}
    IN {<<"c">> \o a \o <<"i">> \o b \o <<"c">> \o c :
            a \in sep, b \in sep, c \in sep}

\* re.sub(r"\bc[ \.]?i[ \.]?c[ \.]?$", " cic", s): the leftmost match.
NormaliseCic(s) ==
    LET starts == {i \in DOMAIN s :
                      /\ SubSeq(s, i, Len(s)) \in CicForms
                      /\ BoundaryBefore(s, i)}
    IN IF starts = {} THEN s
       ELSE LET i == CHOOSE x \in starts : \A y \in starts : x <= y
            IN SubSeq(s, 1, i - 1) \o <<" ", "c", "i", "c">>

\* re.sub(r" +", " ", s)
RECURSIVE CollapseSpaces(_)
CollapseSpaces(s) ==
    IF Len(s) < 2 THEN s
    ELSE IF s[1] = " " /\ s[2] = " " THEN CollapseSpaces(Tail(s))
    ELSE <<s[1]>> \o CollapseSpaces(Tail(s))

\* The steps in the order of the code.  unicodedata.normalize("NFC", s) leaves
\* a string of ASCII characters as it is, and only those are left by then.
normalizeString(s) ==
    LET s1 == LowerStr(s)
        s2 == PunctToSpace(s1)
        s3 == KeepAlnumSpace(s2)
        s4 == Strip(s3)
        s5 == DropLeadingThe(s4)
        s6 == DropTrailingLtd(s5)
        s7 == ExpandAmp(s6, 1)
        s8 == NormaliseCic(s7)
        s9 == CollapseSpaces(s8)
    IN Strip(s9)

\* Pieces a display name is made of.
MaxPieces == 3

Pieces ==
    {<<"B", "a", "t">>, <<"b">>, <<" ", "&", " ">>, <<"&">>, <<" ">>,
     <<"T", "h", "e", " ">>, <<" ", "L", "t", "d">>, <<" ", "C", ".", "I", ".", "C">>,
     <<"-">>}

RECURSIVE Concat(_)
Concat(ps) == IF ps = <<>> THEN <<>> ELSE Head(ps) \o Concat(Tail(ps))

DisplayNames == {Concat(ps) : ps \in SeqsUpTo(Pieces, MaxPieces)}

\* The name with every "&" written out as "and".
RECURSIVE AmpAsWord(_)
AmpAsWord(s) ==
    IF s = <<>> THEN <<>>
    ELSE IF Head(s) = "&" THEN <<"a", "n", "d">> \o AmpAsWord(Tail(s))
    ELSE <<Head(s)>> \o AmpAsWord(Tail(s))

InitKey ==
    /\ pc = "key"
    /\ display_name \in DisplayNames
    /\ keys = [amp |-> NoneStr, word |-> NoneStr]
    /\ PipeIdle /\ WalkIdle /\ WriteIdle /\ RowIdle

\* normalizeString(c["name"]) for the name and for the name with "and".
Normalize ==
    /\ pc = "key"
    /\ keys' = [amp |-> normalizeString(display_name),
                word |-> normalizeString(AmpAsWord(display_name))]
    /\ pc' = "keyed"
    /\ UNCHANGED display_name
    /\ UNCHANGED <<pipeVars, walkVars, writeVars, rowVars>>

NextKey == Normalize

SpecKey == InitKey /\ [][NextKey]_vars

IsLetter(c) == IsLowerChar(c) \/ IsUpperChar(c)

\* An "&" with a space on each side, between two words.
StandaloneAmp(s) ==
    \E i \in DOMAIN s :
        /\ s[i] = "&"
        /\ i > 2 /\ i + 2 <= Len(s)
        /\ s[i - 1] = " " /\ s[i + 1] = " "
        /\ IsLetter(s[i - 2]) /\ IsLetter(s[i + 2])

\* C10: ampersand expansion.  For a display name with a standalone "&"
\* between two words the key has "and" where the name has "&": the name and the
\* name written with "and" have the same key.
C10_AmpersandExpanded ==
    (pc = "keyed" /\ StandaloneAmp(display_name)) => keys.amp = keys.word

----------------------------------------------------------------------------
\* main: fetching, then writing the destination files, with the failures of
\* the requests and of the files.

\* Destinations on the command line.
MaxOut == 2

\* Requests of a run: the page and its attachments.
MaxRequests == 2

Destinations == {"out.csv", "out.json", "out.txt"}

MatchFile == "name_match.csv"

\* filename.endswith("csv") / filename.endswith("json")
EndsCsv(f) == f \in {"out.csv", MatchFile}

EndsJson(f) == f = "out.json"

Outfiles ==
    {o \in SeqsUpTo(Destinations, MaxOut) :
        Len(o) >= 1 /\ \A i, j \in DOMAIN o : i # j => o[i] # o[j]}

InitWrite ==
    /\ pc = "fetch"
    /\ outfile \in Outfiles
    /\ name_match \in BOOLEAN
    /\ to_fetch \in 1..MaxRequests
    /\ out_i = 0
    /\ disk = [f \in Destinations \cup {MatchFile} |-> "prior"]
    /\ PipeIdle /\ WalkIdle /\ RowIdle /\ KeyIdle

\* The file the run is at.
CurrentFile == IF name_match THEN MatchFile ELSE outfile[out_i]

\* session.get and get_data return.
FetchOk ==
    /\ pc = "fetch"
    /\ to_fetch > 0
    /\ to_fetch' = to_fetch - 1
    /\ UNCHANGED <<pc, outfile, name_match, out_i, disk>>
    /\ UNCHANGED <<pipeVars, walkVars, rowVars, keyVars>>

\* session.get or get_data raises: the exception ends the run.
FetchFails ==
    /\ pc = "fetch"
    /\ to_fetch > 0
    /\ pc' = "aborted"
    /\ UNCHANGED <<outfile, name_match, to_fetch, out_i, disk>>
    /\ UNCHANGED <<pipeVars, walkVars, rowVars, keyVars>>

\* The generator is exhausted: cascs is merged and sorted.
MergeDone ==
    /\ pc = "fetch"
    /\ to_fetch = 0
    /\ pc' = "open"
    /\ out_i' = 1
    /\ UNCHANGED <<outfile, name_match, to_fetch, disk>>
    /\ UNCHANGED <<pipeVars, walkVars, rowVars, keyVars>>

\* open(filename, "w") truncates the file.
OpenOk ==
    /\ pc = "open"
    /\ disk' = [disk EXCEPT ![CurrentFile] = "empty"]
    /\ pc' = "write"
    /\ UNCHANGED <<outfile, name_match, to_fetch, out_i>>
    /\ UNCHANGED <<pipeVars, walkVars, rowVars, keyVars>>

\* open raises.
OpenFails ==
    /\ pc = "open"
    /\ pc' = "aborted"
    /\ UNCHANGED <<outfile, name_match, to_fetch, out_i, disk>>
    /\ UNCHANGED <<pipeVars, walkVars, rowVars, keyVars>>

\* The body of the with block: rows for csv, a dump for json, nothing for
\* another extension; then the next destination.
WriteOk ==
    /\ pc = "write"
    /\ disk' = [disk EXCEPT ![CurrentFile] =
                   IF EndsCsv(CurrentFile) \/ EndsJson(CurrentFile)
                   THEN "new" ELSE "empty"]
    /\ IF name_match \/ out_i = Len(outfile)
       THEN pc' = "done" /\ out_i' = out_i
       ELSE pc' = "open" /\ out_i' = out_i + 1
    /\ UNCHANGED <<outfile, name_match, to_fetch>>
    /\ UNCHANGED <<pipeVars, walkVars, rowVars, keyVars>>

\* A write raises part of the way.
WriteFails ==
    /\ pc = "write"
    /\ EndsCsv(CurrentFile) \/ EndsJson(CurrentFile)
    /\ disk' = [disk EXCEPT ![CurrentFile] = "partial"]
    /\ pc' = "aborted"
    /\ UNCHANGED <<outfile, name_match, to_fetch, out_i>>
    /\ UNCHANGED <<pipeVars, walkVars, rowVars, keyVars>>

NextWrite ==
    \/ FetchOk
    \/ FetchFails
    \/ MergeDone
    \/ OpenOk
    \/ OpenFails
    \/ WriteOk
    \/ WriteFails

SpecWrite == InitWrite /\ [][NextWrite]_vars

Untouched == \A f \in DOMAIN disk : disk[f] = "prior"

\* C8: no partial commit.  No output file is opened before the merged set is
\* computed, and a fatal error (a failed request, a failed open or write of one
\* of the destinations, a destination with an unsupported extension) ends the
\* run before any output file is opened: every output file keeps its prior
\* content.
C8_NoPartialCommit ==
    /\ ~Untouched => to_fetch = 0 /\ pc \in {"write", "open", "done", "aborted"}
    /\ pc = "aborted" => Untouched
    /\ (~name_match /\ \E i \in DOMAIN outfile :
            ~(EndsCsv(outfile[i]) \/ EndsJson(outfile[i])))
       => Untouched

====
